---- MODULE Spec2Model ----
(***************************************************************************)
(* A model of textmation's element layer (src/textmation/element.py) and   *)
(* renderer / animation driver (src/textmation/renderer.py).               *)
(*                                                                         *)
(* Python `assert` statements are modelled as run: a failing assert ends   *)
(* the call with AssertionError before the statements that follow it.      *)
(***************************************************************************)
EXTENDS Integers, Sequences, FiniteSets, TLC

\* ------------------------------------------------------------------ bounds

NumElems == 3

Elems == 1..NumElems

\* An object that is not an Element (the argument of a bad add call).
NotAnElement == NumElems + 1

\* Python's None, as the value of Element._parent.
None == 0

VARIABLES
    live,          \* the elements constructed so far
    cls,           \* cls[e]: the class name of element e (e.__class__.__name__)
    _parent,       \* Element._parent
    _children,     \* Element._children
    _properties,   \* Element._properties: a dict name -> ElementProperty
    added,         \* history: the elements some add call has succeeded on
    last,          \* the last call made, with its outcome
    renderer,      \* the Renderer object of the running (or last) driver call
    anim,          \* the locals of render_animation
    calls,         \* history: the reset, compute and render calls of the driver
    returned,      \* what the last driver call returned: a sequence of images
    gen            \* the generator object of the last iter_frame_time call, and
                   \* the last calc_frame_count call

vars == <<live, cls, _parent, _children, _properties, added, last,
          renderer, anim, calls, returned, gen>>

driverVars == <<renderer, anim, calls, returned, gen>>

elementVars == <<live, cls, _parent, _children, _properties, added>>

\* ------------------------------------------------------------ value layer

\* Class names.  Every value class derives from Type; Element derives from
\* Type (element.py:34); int, float, str and NoneType are host classes.
Bases ==
    [Type |-> "object", Number |-> "Type", String |-> "Type", Point |-> "Type",
     Element |-> "Type", Scene |-> "Element", Group |-> "Element",
     Rectangle |-> "Element", Circle |-> "Element", Ellipse |-> "Element",
     Line |-> "Element", Text |-> "Element",
     int |-> "object", float |-> "object", str |-> "object",
     NoneType |-> "object", object |-> "object"]

issubclass(c, t) == c = t \/ Bases[c] = t \/ Bases[Bases[c]] = t

\* A value is its class and a payload.
isinstance(value, t) == issubclass(value.cls, t)

NoValue == [cls |-> "NoneType", v |-> 0]

\* The raw values handed to define and set.
RawValues ==
    {[cls |-> "int", v |-> 1], [cls |-> "float", v |-> 2], [cls |-> "str", v |-> 1],
     [cls |-> "Point", v |-> 1], NoValue}

\* The boxing done at the top of Element.define and Element.set.
Coerce(value) ==
    IF isinstance(value, "int") \/ isinstance(value, "float")
    THEN [cls |-> "Number", v |-> value.v]
    ELSE IF isinstance(value, "str")
    THEN [cls |-> "String", v |-> value.v]
    ELSE value

\* --------------------------------------------------------- property layer

Names == {"x", "y"}

\* A name argument that is not a str.
NotAStr == "<not-a-str>"

\* The `types` argument of define: absent (None), one class, or a tuple.
TypesArgs ==
    {[form |-> "none", of |-> {}]}
    \cup {[form |-> "class", of |-> {c}] : c \in {"Number", "Type", "int"}}
    \cup {[form |-> "tuple", of |-> S] : S \in {{}, {"Number", "String"}}}

\* The `relative` argument of define: None, the ElementProperty registered
\* under a name of the same element, or an object that is no ElementProperty.
NoRelative == "None"

NotAProperty == "<not-a-property>"

RelativeArgs == {NoRelative, NotAProperty} \cup Names

\* ElementProperty.set assigning before it asserts.
ElementProperty_set_AssignFirst(prop, value) ==
    [ok |-> \E type \in prop.types : isinstance(value, type),
     prop |-> [prop EXCEPT !.value = value]]

\* ElementProperty.set, on the property object prop: the object afterwards
\* and whether the call returned (ok) or raised AssertionError.
ElementProperty_set(prop, value) ==
    IF \E type \in prop.types : isinstance(value, type)
    THEN [ok |-> TRUE, prop |-> [prop EXCEPT !.value = value]]
    ELSE [ok |-> FALSE, prop |-> prop]

\* ElementProperty.__init__ storing the value without validating it.
ElementProperty_init_NoValidate(name, value, types, isTuple, relative, relOK) ==
    IF name = NotAStr \/ ~isTuple
       \/ ~(\A type \in types : issubclass(type, "Type")) \/ ~relOK
    THEN [ok |-> FALSE, prop |-> [name |-> name, value |-> NoValue, types |-> types, relative |-> relative]]
    ELSE [ok |-> TRUE, prop |-> [name |-> name, value |-> value, types |-> types, relative |-> relative]]

\* ElementProperty.__init__: the asserts, the four fields, then set(value).
\* isTuple: types is a tuple; relOK: relative is None or an ElementProperty.
ElementProperty_init(name, value, types, isTuple, relative, relOK) ==
    IF name = NotAStr \/ ~isTuple
       \/ ~(\A type \in types : issubclass(type, "Type")) \/ ~relOK
    THEN [ok |-> FALSE, prop |-> [name |-> name, value |-> NoValue, types |-> types, relative |-> relative]]
    ELSE ElementProperty_set(
            [name |-> name, value |-> NoValue, types |-> types, relative |-> relative],
            value)

\* --------------------------------------------------- points and the drivers

\* properties.Point: a pair, added componentwise.
Zero == <<0, 0>>

PointAdd(a, b) == <<a[1] + b[1], a[2] + b[2]>>

\* Renderer._image before the first render.  An image is the number of the
\* Image.new call that made it and the scene whose size and background it
\* was made from.
NoImage == [id |-> 0, scene |-> None]

\* Renderer.__init__: no image, the zero offset on the translation stack.
\* allocated counts the images Image.new has made for this Renderer, draws
\* lists the draw calls of the render under way, status is "ok" until the
\* render raises.

NewRenderer ==
    [_image |-> NoImage, _translations |-> <<Zero>>, allocated |-> 0, draws |-> <<>>,
     status |-> "ok"]

\* render_animation's locals before the call.
NoAnim ==
    [pc |-> "idle", scene |-> None, duration |-> 0, frame_rate |-> 0,
     given |-> "default", inclusive |-> FALSE, frame_count |-> 0, frame |-> 0,
     frames |-> <<>>]

\* No generator yet, and no calc_frame_count call.
NoGen ==
    [state |-> "none", duration |-> 0, frame_rate |-> 0, inclusive |-> FALSE,
     frame |-> 0, yielded |-> <<>>,
     counted |-> [duration |-> 0, frame_rate |-> 0, inclusive |-> FALSE, frames |-> 0]]

IdleDrivers ==
    /\ renderer = NewRenderer
    /\ anim = NoAnim
    /\ calls = <<>>
    /\ returned = <<>>
    /\ gen = NoGen

\* ------------------------------------------------------------------ calls

\* A call and its outcome: the receiver, the element, name and value handed
\* in (where the operation takes them), whether it returned ("ok") or what it
\* raised, and what it returned.
Call(op, self, element, name, value, status, ret) ==
    [op |-> op, self |-> self, element |-> element, name |-> name, value |-> value,
     status |-> status, ret |-> ret]

NoCall == Call("init", None, None, "", NoValue, "ok", "None")

\* Element.__init__
Construct(e) ==
    /\ e \notin live
    /\ live' = live \cup {e}
    /\ cls' = [cls EXCEPT ![e] = "Element"]
    /\ _parent' = [_parent EXCEPT ![e] = None]
    /\ _children' = [_children EXCEPT ![e] = <<>>]
    /\ _properties' = [_properties EXCEPT ![e] = <<>>]
    /\ last' = Call("__init__", e, None, "", NoValue, "ok", "None")
    /\ UNCHANGED <<added, driverVars>>

\* Element.add appending the element without setting its parent.
Add_NoParentLink(self, element) ==
    /\ self \in live
    /\ element \in live \cup {NotAnElement}
    /\ IF element = NotAnElement \/ _parent[element] # None
       THEN /\ last' = Call("add", self, element, "", NoValue,
                            "AssertionError", "None")
            /\ UNCHANGED <<_parent, _children, added>>
       ELSE /\ _children' = [_children EXCEPT ![self] = Append(@, element)]
            /\ added' = added \cup {element}
            /\ last' = Call("add", self, element, "", NoValue,
                            "ok", "None")
            /\ UNCHANGED _parent
    /\ UNCHANGED <<live, cls, _properties, driverVars>>

\* Element.add without the ownership assert.
Add_NoOwnerCheck(self, element) ==
    /\ self \in live
    /\ element \in live
    /\ _parent' = [_parent EXCEPT ![element] = self]
    /\ _children' = [_children EXCEPT ![self] = Append(@, element)]
    /\ added' = added \cup {element}
    /\ last' = Call("add", self, element, "", NoValue, "ok", "None")
    /\ UNCHANGED <<live, cls, _properties, driverVars>>

\* Element.add
Add(self, element) ==
    /\ self \in live
    /\ element \in live \cup {NotAnElement}
    /\ IF element = NotAnElement \/ _parent[element] # None
       THEN /\ last' = Call("add", self, element, "", NoValue,
                            "AssertionError", "None")
            /\ UNCHANGED <<_parent, _children, added>>
       ELSE /\ _parent' = [_parent EXCEPT ![element] = self]
            /\ _children' = [_children EXCEPT ![self] = Append(@, element)]
            /\ added' = added \cup {element}
            /\ last' = Call("add", self, element, "", NoValue,
                            "ok", "None")
    /\ UNCHANGED <<live, cls, _properties, driverVars>>

\* ----------------------------------------------- define, set, get and has

\* Element.define without the assert that the name is new.
Define_Overwrite(self, name, value, types, relative) ==
    LET boxed == Coerce(value)
        tuple == IF types.form = "none" THEN {boxed.cls} ELSE types.of
        made == ElementProperty_init(name, boxed, tuple, TRUE, relative,
                                     relative # NotAProperty)
        call(status) == Call("define", self, None, name, value, status, "None")
    IN  /\ self \in live
        /\ relative \in Names => relative \in DOMAIN _properties[self]
        /\ IF \/ name = NotAStr
              \/ ~isinstance(boxed, "Type")
              \/ ~made.ok
           THEN /\ last' = call("AssertionError")
                /\ UNCHANGED _properties
           ELSE /\ _properties' = [_properties EXCEPT ![self] = (name :> made.prop) @@ @]
                /\ last' = call("ok")
        /\ UNCHANGED <<live, cls, _parent, _children, added, driverVars>>

\* Element.define.  A relative that names a property stands for the
\* ElementProperty object registered under that name, which the caller
\* holds only if it exists.
Define(self, name, value, types, relative) ==
    LET boxed == Coerce(value)
        tuple == IF types.form = "none" THEN {boxed.cls} ELSE types.of
        made == ElementProperty_init(name, boxed, tuple, TRUE, relative,
                                     relative # NotAProperty)
        call(status) == Call("define", self, None, name, value, status, "None")
    IN  /\ self \in live
        /\ relative \in Names => relative \in DOMAIN _properties[self]
        /\ IF \/ name = NotAStr
              \/ ~isinstance(boxed, "Type")
              \/ name \in DOMAIN _properties[self]
              \/ ~made.ok
           THEN /\ last' = call("AssertionError")
                /\ UNCHANGED _properties
           ELSE /\ _properties' = [_properties EXCEPT ![self] = (name :> made.prop) @@ @]
                /\ last' = call("ok")
        /\ UNCHANGED <<live, cls, _parent, _children, added, driverVars>>

\* Element.set putting a new property object, allowing just the class of the
\* value, in the place of the old one.
Set_Redefine(self, name, value) ==
    LET call(status) == Call("set", self, None, name, value, status, "None")
    IN  /\ self \in live
        /\ IF name \notin DOMAIN _properties[self]
           THEN /\ last' = call("AssertionError")
                /\ UNCHANGED _properties
           ELSE LET res == ElementProperty_set(_properties[self][name], Coerce(value))
                IN  /\ _properties' = [_properties EXCEPT ![self][name] =
                            IF res.ok THEN [res.prop EXCEPT !.types = {Coerce(value).cls}]
                            ELSE res.prop]
                    /\ last' = call(IF res.ok THEN "ok" ELSE "AssertionError")
        /\ UNCHANGED <<live, cls, _parent, _children, added, driverVars>>

\* Element.set: the property object is changed in place by ElementProperty.set.
Set(self, name, value) ==
    LET call(status) == Call("set", self, None, name, value, status, "None")
    IN  /\ self \in live
        /\ IF name \notin DOMAIN _properties[self]
           THEN /\ last' = call("AssertionError")
                /\ UNCHANGED _properties
           ELSE LET res == ElementProperty_set(_properties[self][name], Coerce(value))
                IN  /\ _properties' = [_properties EXCEPT ![self][name] = res.prop]
                    /\ last' = call(IF res.ok THEN "ok" ELSE "AssertionError")
        /\ UNCHANGED <<live, cls, _parent, _children, added, driverVars>>

\* ElementProperty.set called on the object that Element.get returned: no boxing.
PropertySet(self, name, value) ==
    LET res == ElementProperty_set(_properties[self][name], value)
    IN  /\ self \in live
        /\ name \in DOMAIN _properties[self]
        /\ _properties' = [_properties EXCEPT ![self][name] = res.prop]
        /\ last' = Call("property.set", self, None, name, value,
                        IF res.ok THEN "ok" ELSE "AssertionError", "None")
        /\ UNCHANGED <<live, cls, _parent, _children, added, driverVars>>

\* Element.get answering None for an absent name, as dict.get does.
Get_OrNone(self, name) ==
    /\ self \in live
    /\ last' = Call("get", self, None, name, NoValue, "ok",
                    IF name \in DOMAIN _properties[self] THEN name ELSE "None")
    /\ UNCHANGED <<elementVars, driverVars>>

\* Element.get: the dict lookup raises KeyError for an absent name.
Get(self, name) ==
    /\ self \in live
    /\ last' = IF name \in DOMAIN _properties[self]
               THEN Call("get", self, None, name, NoValue, "ok", name)
               ELSE Call("get", self, None, name, NoValue, "KeyError", "None")
    /\ UNCHANGED <<elementVars, driverVars>>

\* Element.has
Has(self, name) ==
    /\ self \in live
    /\ last' = Call("has", self, None, name, NoValue, "ok",
                    IF name \in DOMAIN _properties[self] THEN "True" ELSE "False")
    /\ UNCHANGED <<elementVars, driverVars>>

\* ----------------------------------------------------------------- Renderer

\* The geometry of element e: a Group's position, a Rectangle's bounds, a
\* Circle's or Ellipse's center, a Line's start_point, a Text's position.
\* Distinct powers of two, so that a sum tells which offsets went into it.
PositionOf(e) == <<5 * 2^(e - 1), 2^(e - 1)>>

\* A Line's end_point.
EndPointOf(e) == PointAdd(PositionOf(e), <<1, 1>>)

\* Renderer.translation reading the bottom of the stack.
translation_Bottom(r) == r._translations[1]

\* Renderer.translation
translation(r) == r._translations[Len(r._translations)]

\* Renderer.translate up to its yield: push translation + offset.
translate_enter(r, offset) ==
    [r EXCEPT !._translations = Append(@, PointAdd(translation(r), offset))]

\* Renderer.translate leaving the with block without popping.
translate_exit_NoPop(r) == r

\* Renderer.translate from its yield on.  When the with block returns, the
\* generator resumes and pops.  When the with block raises, the exception is
\* thrown into the generator at the yield, which is not inside a try: the
\* generator ends there and the pop is not run.
translate_exit(r) ==
    IF r.status = "ok"
    THEN [r EXCEPT !._translations = SubSeq(@, 1, Len(@) - 1)]
    ELSE r

\* One call on the image: which draw call, for which element, on which
\* image, and the translated point(s) handed over.
DrawCall(r, call, element, at, to) ==
    [r EXCEPT !.draws = Append(@, [call |-> call, element |-> element,
                                   image |-> r._image.id, at |-> at, to |-> to])]

RECURSIVE _render(_, _)
RECURSIVE _render_children_from(_, _, _)

\* Renderer._render_children: the children in list order, up to the first
\* that raises.
_render_children_from(element, i, r) ==
    IF i > Len(_children[element]) \/ r.status # "ok"
    THEN r
    ELSE _render_children_from(element, i + 1, _render(_children[element][i], r))

_render_children(element, r) == _render_children_from(element, 1, r)

\* Renderer._render_Scene: a new image, then the children.
_render_Scene(scene, r) ==
    _render_children(scene,
        [r EXCEPT !._image = [id |-> r.allocated + 1, scene |-> scene],
                  !.allocated = @ + 1])

\* Renderer._render_Group
_render_Group(group, r) ==
    translate_exit(_render_children(group, translate_enter(r, PositionOf(group))))

\* Renderer._render_Rectangle rendering the children before it draws.
_render_Rectangle_ChildrenFirst(rect, r) ==
    LET after == _render_children(rect, r)
        at == PointAdd(translation(after), PositionOf(rect))
    IN  IF after.status = "ok" THEN DrawCall(after, "draw_rect", rect, at, at) ELSE after

\* Renderer._render_Rectangle
_render_Rectangle(rect, r) ==
    LET at == PointAdd(translation(r), PositionOf(rect))
    IN  _render_children(rect, DrawCall(r, "draw_rect", rect, at, at))

\* Renderer._render_Circle going to the children without drawing.
_render_Circle_NoDraw(circle, r) == _render_children(circle, r)

\* Renderer._render_Circle
_render_Circle(circle, r) ==
    LET at == PointAdd(translation(r), PositionOf(circle))
    IN  _render_children(circle, DrawCall(r, "draw_circle", circle, at, at))

\* Renderer._render_Ellipse
_render_Ellipse(ellipse, r) ==
    LET at == PointAdd(translation(r), PositionOf(ellipse))
    IN  _render_children(ellipse, DrawCall(r, "draw_ellipse", ellipse, at, at))

\* Renderer._render_Line
_render_Line(line, r) ==
    _render_children(line,
        DrawCall(r, "draw_line", line,
                 PointAdd(translation(r), PositionOf(line)),
                 PointAdd(translation(r), EndPointOf(line))))

\* Renderer._render_Text
_render_Text(text, r) ==
    LET at == PointAdd(translation(r), PositionOf(text))
    IN  _render_children(text, DrawCall(r, "draw_text", text, at, at))

\* Renderer._render passing over an element it has no handler for.
_render_SkipUnhandled(element, r) ==
    IF r.status # "ok" THEN r
    ELSE CASE cls[element] = "Scene" -> _render_Scene(element, r)
           [] cls[element] = "Group" -> _render_Group(element, r)
           [] cls[element] = "Rectangle" -> _render_Rectangle(element, r)
           [] cls[element] = "Circle" -> _render_Circle(element, r)
           [] cls[element] = "Ellipse" -> _render_Ellipse(element, r)
           [] cls[element] = "Line" -> _render_Line(element, r)
           [] cls[element] = "Text" -> _render_Text(element, r)
           [] OTHER -> r

\* Renderer._render: the handler named after the element's class; getattr
\* raises AttributeError when the Renderer has no such method.
_render(element, r) ==
    IF r.status # "ok" THEN r
    ELSE CASE cls[element] = "Scene" -> _render_Scene(element, r)
           [] cls[element] = "Group" -> _render_Group(element, r)
           [] cls[element] = "Rectangle" -> _render_Rectangle(element, r)
           [] cls[element] = "Circle" -> _render_Circle(element, r)
           [] cls[element] = "Ellipse" -> _render_Ellipse(element, r)
           [] cls[element] = "Line" -> _render_Line(element, r)
           [] cls[element] = "Text" -> _render_Text(element, r)
           [] OTHER -> [r EXCEPT !.status = "AttributeError"]

\* Renderer.render without the assert on its argument.
Renderer_render_NoRootCheck(element, r) ==
    _render(element, [r EXCEPT !.draws = <<>>])

\* Renderer.render, on the Renderer in state r: the draw calls listed are
\* those of this call.
Renderer_render(element, r) ==
    IF ~issubclass(cls[element], "Scene")
    THEN [r EXCEPT !.status = "AssertionError", !.draws = <<>>]
    ELSE _render(element, [r EXCEPT !.draws = <<>>])

\* ---------------------------------------------------------- frames and time

RECURSIVE GCD(_, _)
GCD(a, b) == IF b = 0 THEN a ELSE GCD(b, a % b)

\* frame / frame_rate for frame >= 0 and frame_rate > 0: the quotient, as a
\* fraction in lowest terms.
TrueDiv(frame, frame_rate) ==
    <<frame \div GCD(frame, frame_rate), frame_rate \div GCD(frame, frame_rate)>>

\* The keyword argument inclusive: left out ("default"), "True" or "False".
InclusiveArgs == {"default", "True", "False"}

\* The value of inclusive in a function whose default is dflt.
Inclusive(given, dflt) == IF given = "default" THEN dflt ELSE given = "True"

\* calc_frame_count adding the extra frame when not inclusive.
calc_frame_count_Flipped(duration, frame_rate, inclusive) ==
    duration * frame_rate + (IF inclusive THEN 0 ELSE 1)

\* calc_frame_count
calc_frame_count(duration, frame_rate, inclusive) ==
    duration * frame_rate + (IF inclusive THEN 1 ELSE 0)

\* One next() on the generator iter_frame_time(duration, frame_rate,
\* inclusive) that has yielded `frame` pairs so far: the pair it yields, the
\* end of the range, or the ZeroDivisionError of frame / 0.
iter_frame_time_next(duration, frame_rate, inclusive, frame) ==
    IF frame >= calc_frame_count(duration, frame_rate, inclusive)
    THEN [status |-> "StopIteration", frame |-> frame, time |-> Zero]
    ELSE IF frame_rate = 0
    THEN [status |-> "ZeroDivisionError", frame |-> frame, time |-> Zero]
    ELSE [status |-> "ok", frame |-> frame, time |-> TrueDiv(frame, frame_rate)]

\* ------------------------------------------------------ the element tree

InitTree ==
    /\ live = {}
    /\ cls = [e \in Elems |-> "Element"]
    /\ _parent = [e \in Elems |-> None]
    /\ _children = [e \in Elems |-> <<>>]
    /\ _properties = [e \in Elems |-> <<>>]
    /\ added = {}
    /\ last = NoCall
    /\ IdleDrivers

Init == InitTree

Next ==
    \/ \E e \in Elems : Construct(e)
    \/ \E self \in Elems, element \in Elems \cup {NotAnElement} : Add(self, element)

Spec == Init /\ [][Next]_vars

\* --------------------------------------------------------------- C1 .. C2

\* The elements reachable from e by following children edges (one or more).
ChildrenOf(S) == UNION {{_children[e][i] : i \in 1..Len(_children[e])} : e \in S}

RECURSIVE ReachFrom(_, _)
ReachFrom(S, n) == IF n = 0 THEN S ELSE ReachFrom(S \cup ChildrenOf(S), n - 1)

Descendants(e) == ReachFrom(ChildrenOf({e}), NumElems)

\* C1: once add(c) has succeeded on some element, every later add(c), on the
\* same element or on another, fails and leaves every parent link and every
\* children list as it was.
C1_SecondAddFails ==
    [][(last'.op = "add" /\ last'.element \in added)
        => (/\ last'.status = "AssertionError"
            /\ _parent' = _parent
            /\ _children' = _children)]_vars

\* C1 witness: a failed add of an owned child to an element other than its parent.
C1_Witness ==
    /\ last.op = "add"
    /\ last.status = "AssertionError"
    /\ last.element \in added
    /\ _parent[last.element] # last.self
    /\ _children[last.self] = <<>>

\* C2: the children graph is acyclic: no element is its own descendant.
C2_Acyclic == \A e \in live : e \notin Descendants(e)

\* ------------------------------------------------- the properties of an element

\* The element whose properties are exercised.
Owners == {1}

InitProperty ==
    /\ live = Elems
    /\ cls = [e \in Elems |-> "Element"]
    /\ _parent = [e \in Elems |-> None]
    /\ _children = [e \in Elems |-> <<>>]
    /\ _properties = [e \in Elems |-> <<>>]
    /\ added = {}
    /\ last = NoCall
    /\ IdleDrivers

NextProperty ==
    \/ \E self \in Owners, name \in Names \cup {NotAStr}, value \in RawValues,
          types \in TypesArgs, relative \in RelativeArgs :
            Define(self, name, value, types, relative)
    \/ \E self \in Owners, name \in Names \cup {NotAStr}, value \in RawValues :
            Set(self, name, value)
    \/ \E self \in Owners, name \in Names, value \in RawValues \cup {Coerce(v) : v \in RawValues} :
            PropertySet(self, name, value)
    \/ \E self \in Owners, name \in Names \cup {NotAStr} : Get(self, name)
    \/ \E self \in Owners, name \in Names \cup {NotAStr} : Has(self, name)

SpecProperty == InitProperty /\ [][NextProperty]_vars

\* --------------------------------------------------------------- C3 .. C4

\* value is an instance of one of the allowed types.
Allowed(value, types) == \E type \in types : isinstance(value, type)

\* The value a set call hands to the property: boxed by Element.set, as
\* given by ElementProperty.set.
Given(call) == IF call.op = "set" THEN Coerce(call.value) ELSE call.value

IsSetOfDefined(call) ==
    /\ call.op \in {"set", "property.set"}
    /\ call.name \in DOMAIN _properties[call.self]

\* C3: a set whose (boxed) value is an instance of none of the property's
\* allowed types raises, and every property, this one included, still holds
\* the value, allowed types and relative it held before the call.
C3_BadSetFailsUnchanged ==
    [][(/\ IsSetOfDefined(last')
        /\ ~Allowed(Given(last'), _properties[last'.self][last'.name].types))
        => (/\ last'.status = "AssertionError"
            /\ _properties' = _properties)]_vars

\* C3 witness: a set of a Point on a defined Number-or-String property has
\* just failed, and the property holds another value.
C3_Witness ==
    /\ last.op = "set"
    /\ last.status = "AssertionError"
    /\ last.name \in DOMAIN _properties[last.self]
    /\ last.value.cls = "Point"
    /\ _properties[last.self][last.name].types = {"Number", "String"}
    /\ _properties[last.self][last.name].value.cls = "String"

\* C4: every registered property holds a value that is an instance of one
\* of its allowed types.
C4_ValueAlwaysAllowed ==
    \A e \in live : \A n \in DOMAIN _properties[e] :
        Allowed(_properties[e][n].value, _properties[e][n].types)

\* C4 witness: both names are registered, one of them re-set to a value of
\* another class than it was defined with, and a define has just failed.
C4_Witness ==
    /\ last.op = "define"
    /\ last.status = "AssertionError"
    /\ DOMAIN _properties[last.self] = Names
    /\ \E n \in Names :
        /\ _properties[last.self][n].types = {"Type"}
        /\ _properties[last.self][n].value.cls = "Point"

\* ------------------------------------------------------------- the drivers

MaxDuration == 1

MaxFrameRate == 2

\* The times render is called with: 0 (the default) and 1/2.
Times == {<<0, 1>>, <<1, 2>>}

\* The classes of the elements of a scene tree: those the Renderer has a
\* handler for, and the base class Element, for which it has none.
RenderClasses ==
    {"Scene", "Group", "Rectangle", "Circle", "Ellipse", "Line", "Text", "Element"}

\* An entry of the history of calls.
Event(op, time, image) == [op |-> op, time |-> time, image |-> image]

\* scene.reset() and scene.compute(time), as far as the drivers are
\* concerned: calls made on the scene, in this order.
scene_reset(log) == Append(log, Event("reset", Zero, 0))

scene_compute(log, time) == Append(log, Event("compute", time, 0))

\* The members of a set of elements in increasing order.
RECURSIVE Ascending(_)
Ascending(S) ==
    IF S = {} THEN <<>>
    ELSE LET m == CHOOSE x \in S : \A y \in S : x <= y
         IN  <<m>> \o Ascending(S \ {m})

\* The classes of the root of the tree: a Scene, or a Group where the caller
\* hands render something that is no Scene.
RootClasses == {"Scene", "Group"}

\* A scene tree as the front end hands it over: element 1 is the root, every
\* other element was added once, to an element built before it, and children
\* lists are in the order of the adds.
InitScene ==
    /\ live = Elems
    /\ cls \in [Elems -> RenderClasses]
    /\ cls[1] \in RootClasses
    /\ _parent \in [Elems -> {None} \cup Elems]
    /\ \A e \in Elems : IF e = 1 THEN _parent[e] = None
                        ELSE _parent[e] \in 1..(e - 1)
    /\ _children = [p \in Elems |-> Ascending({e \in Elems : _parent[e] = p})]
    /\ _properties = [e \in Elems |-> <<>>]
    /\ added = Elems \ {1}
    /\ last = NoCall
    /\ IdleDrivers

\* frames.append(image) putting the image at the front.
collect_AtFront(frames, image) == <<image>> \o frames

\* frames.append(image)
collect(frames, image) == Append(frames, image)

\* _render(renderer, scene, time) rendering before it computes.
Driver_render_RenderFirst(r, scene, time, log) ==
    LET out == Renderer_render(scene, r)
    IN  [renderer |-> out,
         calls |-> Append(Append(log, Event("render", time,
                                            IF out.status = "ok" THEN out._image.id ELSE 0)),
                          Event("compute", time, 0))]

\* _render(renderer, scene, time) of renderer.py: compute, then render.
\* The renderer afterwards and the history with the two calls.
Driver_render(r, scene, time, log) ==
    LET out == Renderer_render(scene, r)
    IN  [renderer |-> out,
         calls |-> Append(scene_compute(log, time),
                          Event("render", time, IF out.status = "ok" THEN out._image.id ELSE 0))]

\* render(scene, time): reset, a new Renderer, compute and render.  The
\* drivers hand nothing from one call to the next (each builds its own
\* Renderer), so a behaviour is one call of a driver on a tree.
Render(scene, time) ==
    LET got == Driver_render(NewRenderer, scene, time, scene_reset(<<>>))
    IN  /\ anim.pc = "idle"
        /\ calls = <<>>
        /\ scene \in live
        /\ renderer' = got.renderer
        /\ calls' = got.calls
        /\ returned' = IF got.renderer.status = "ok" THEN <<got.renderer._image>> ELSE <<>>
        /\ last' = Call("render", scene, None, "", NoValue, got.renderer.status, "None")
        /\ anim' = NoAnim
        /\ UNCHANGED <<elementVars, gen>>

\* render(scene, time) when scene.compute(time) raises: _render is left
\* before renderer.render is called, and render returns nothing.
RenderComputeRaises(scene, time) ==
    /\ anim.pc = "idle"
    /\ calls = <<>>
    /\ scene \in live
    /\ renderer' = NewRenderer
    /\ calls' = scene_compute(scene_reset(<<>>), time)
    /\ returned' = <<>>
    /\ last' = Call("render", scene, None, "", NoValue, "ComputeError", "None")
    /\ anim' = NoAnim
    /\ UNCHANGED <<elementVars, gen>>

\* render_animation(scene, inclusive=...) up to its loop: reset, a new
\* Renderer, the frame count from the scene's duration and frame_rate.
AnimStart(scene, duration, frame_rate, given) ==
    /\ anim.pc = "idle"
    /\ calls = <<>>
    /\ scene \in live
    /\ issubclass(cls[scene], "Scene")
    /\ renderer' = NewRenderer
    /\ calls' = scene_reset(<<>>)
    /\ returned' = <<>>
    /\ anim' = [pc |-> "loop", scene |-> scene, duration |-> duration,
                frame_rate |-> frame_rate, given |-> given,
                inclusive |-> Inclusive(given, TRUE),
                frame_count |-> calc_frame_count(duration, frame_rate, Inclusive(given, TRUE)),
                frame |-> 0, frames |-> <<>>]
    /\ last' = Call("render_animation", scene, None, "", NoValue, "running", "None")
    /\ UNCHANGED <<elementVars, gen>>

\* The loop of render_animation catching what _render raises and going on
\* with the next frame.
AnimFrame_SkipFailedFrame ==
    LET nx == iter_frame_time_next(anim.duration, anim.frame_rate, anim.inclusive, anim.frame)
        got == Driver_render(renderer, anim.scene, nx.time, calls)
    IN  /\ anim.pc = "loop"
        /\ nx.status # "StopIteration"
        /\ IF nx.status # "ok"
           THEN /\ anim' = [anim EXCEPT !.pc = "raised"]
                /\ last' = Call("render_animation", anim.scene, None, "", NoValue, nx.status, "None")
                /\ UNCHANGED <<renderer, calls>>
           ELSE /\ renderer' = got.renderer
                /\ calls' = got.calls
                /\ anim' = [anim EXCEPT !.frames = IF got.renderer.status = "ok"
                                                   THEN collect(@, got.renderer._image)
                                                   ELSE @,
                                        !.frame = @ + 1]
                /\ last' = Call("frame", anim.scene, None, "", NoValue,
                                got.renderer.status, "None")
        /\ UNCHANGED <<elementVars, returned, gen>>

\* One turn of the loop of render_animation: the next (frame, time) pair,
\* _render on the one Renderer, the image appended to frames.  An exception,
\* of the generator or of _render, leaves the function.
AnimFrame ==
    LET nx == iter_frame_time_next(anim.duration, anim.frame_rate, anim.inclusive, anim.frame)
        got == Driver_render(renderer, anim.scene, nx.time, calls)
    IN  /\ anim.pc = "loop"
        /\ nx.status # "StopIteration"
        /\ IF nx.status # "ok"
           THEN /\ anim' = [anim EXCEPT !.pc = "raised"]
                /\ last' = Call("render_animation", anim.scene, None, "", NoValue, nx.status, "None")
                /\ UNCHANGED <<renderer, calls>>
           ELSE /\ renderer' = got.renderer
                /\ calls' = got.calls
                /\ IF got.renderer.status = "ok"
                   THEN /\ anim' = [anim EXCEPT !.frames = collect(@, got.renderer._image),
                                                !.frame = @ + 1]
                        /\ last' = Call("frame", anim.scene, None, "", NoValue, "ok", "None")
                   ELSE /\ anim' = [anim EXCEPT !.pc = "raised"]
                        /\ last' = Call("render_animation", anim.scene, None, "", NoValue,
                                        got.renderer.status, "None")
        /\ UNCHANGED <<elementVars, returned, gen>>

\* A turn of the loop in which scene.compute(time) raises: _render is left
\* before renderer.render is called, nothing is appended to frames, and the
\* exception leaves render_animation through its try/finally, which only
\* prints.
AnimComputeRaises ==
    LET nx == iter_frame_time_next(anim.duration, anim.frame_rate, anim.inclusive, anim.frame)
    IN  /\ anim.pc = "loop"
        /\ nx.status = "ok"
        /\ calls' = scene_compute(calls, nx.time)
        /\ anim' = [anim EXCEPT !.pc = "raised"]
        /\ last' = Call("render_animation", anim.scene, None, "", NoValue,
                        "ComputeError", "None")
        /\ UNCHANGED <<elementVars, renderer, returned, gen>>

\* The end of the loop of render_animation: return frames.
AnimReturn ==
    LET nx == iter_frame_time_next(anim.duration, anim.frame_rate, anim.inclusive, anim.frame)
    IN  /\ anim.pc = "loop"
        /\ nx.status = "StopIteration"
        /\ anim' = [anim EXCEPT !.pc = "done"]
        /\ returned' = anim.frames
        /\ last' = Call("render_animation", anim.scene, None, "", NoValue, "ok", "None")
        /\ UNCHANGED <<elementVars, renderer, calls, gen>>

NextRender ==
    \/ \E scene \in Elems, time \in Times : Render(scene, time)
    \/ \E scene \in Elems, duration \in 0..MaxDuration, frame_rate \in 0..MaxFrameRate,
          given \in InclusiveArgs : AnimStart(scene, duration, frame_rate, given)
    \/ \E scene \in Elems, time \in Times : RenderComputeRaises(scene, time)
    \/ AnimFrame
    \/ AnimComputeRaises
    \/ AnimReturn

SpecRender == InitScene /\ [][NextRender]_vars

\* ------------------------------------------- the frame count and the frames

\* calc_frame_count(duration, frame_rate, inclusive=...)
CalcFrameCount(duration, frame_rate, given) ==
    /\ gen' = [gen EXCEPT !.counted =
                [duration |-> duration, frame_rate |-> frame_rate,
                 inclusive |-> Inclusive(given, FALSE),
                 frames |-> calc_frame_count(duration, frame_rate, Inclusive(given, FALSE))]]
    /\ last' = Call("calc_frame_count", None, None, "", NoValue, "ok", "None")
    /\ UNCHANGED <<elementVars, renderer, anim, calls, returned>>

\* iter_frame_time(duration, frame_rate, inclusive=...): a new generator,
\* none of its body run yet.
IterCall(duration, frame_rate, given) ==
    /\ gen' = [gen EXCEPT !.state = "suspended", !.duration = duration,
                          !.frame_rate = frame_rate,
                          !.inclusive = Inclusive(given, FALSE),
                          !.frame = 0, !.yielded = <<>>]
    /\ last' = Call("iter_frame_time", None, None, "", NoValue, "ok", "None")
    /\ UNCHANGED <<elementVars, renderer, anim, calls, returned>>

\* next() on the generator.
IterNext ==
    LET nx == iter_frame_time_next(gen.duration, gen.frame_rate, gen.inclusive, gen.frame)
    IN  /\ gen.state = "suspended"
        /\ gen' = IF nx.status = "ok"
                  THEN [gen EXCEPT !.yielded = Append(@, <<nx.frame, nx.time>>),
                                   !.frame = @ + 1]
                  ELSE [gen EXCEPT !.state = IF nx.status = "StopIteration"
                                             THEN "done" ELSE "raised"]
        /\ last' = Call("next", None, None, "", NoValue, nx.status, "None")
        /\ UNCHANGED <<elementVars, renderer, anim, calls, returned>>

NextFrames ==
    \/ \E duration \in 0..MaxDuration, frame_rate \in 0..MaxFrameRate,
          given \in InclusiveArgs : CalcFrameCount(duration, frame_rate, given)
    \/ \E duration \in 0..MaxDuration, frame_rate \in 0..MaxFrameRate,
          given \in InclusiveArgs : IterCall(duration, frame_rate, given)
    \/ IterNext

SpecFrames == InitTree /\ [][NextFrames]_vars

\* --------------------------------------------------------------- C5 .. C7

\* The last step was a Renderer.render call that returned, or the return of
\* a render_animation all of whose frames were rendered.
RenderReturned ==
    /\ last.op \in {"render", "frame", "render_animation"}
    /\ last.status = "ok"

\* C5: when Renderer.render has returned, in render and after each frame of
\* render_animation, the translation stack holds the zero offset and
\* nothing else.
C5_StackUnwoundOnReturn ==
    RenderReturned => renderer._translations = <<Zero>>

\* C5 witness: the second frame of an animation has been rendered on the one
\* Renderer, for a scene with a Group inside a Group.
C5_Witness ==
    /\ last.op = "frame"
    /\ Len(anim.frames) = 2
    /\ \E g \in Elems :
        /\ cls[g] = "Group"
        /\ _parent[g] # None
        /\ cls[_parent[g]] = "Group"
        /\ _parent[_parent[g]] = anim.scene

\* The last step was a render that raised while the tree was being walked.
RenderRaised ==
    /\ last.op \in {"render", "render_animation"}
    /\ last.status = "AttributeError"

\* C6: when a render has raised below a Group, the offsets the Groups pushed
\* are off the stack again: it is as it was before the Groups were entered.
C6_StackUnwoundOnFailure ==
    RenderRaised => renderer._translations = <<Zero>>

\* The scene the last render was called on.
Rendered == IF last.op = "render" THEN last.self ELSE anim.scene

\* The sum of the positions of the Groups on the path from the rendered
\* scene down to e, e itself left out.
RECURSIVE GroupOffset(_, _)
GroupOffset(e, root) ==
    IF e = root \/ _parent[e] = None THEN Zero
    ELSE PointAdd(GroupOffset(_parent[e], root),
                  IF cls[_parent[e]] = "Group" THEN PositionOf(_parent[e]) ELSE Zero)

IsQuotient(time, k, frame_rate) ==
    /\ time[2] > 0
    /\ time[1] * frame_rate = k * time[2]

\* C8: the calls render_animation makes on the scene and the Renderer are
\* one reset, then compute(0 / frame_rate), render, compute(1 / frame_rate),
\* render, ... : every render directly after the compute of its frame's time.
C8_ResetThenComputeRender ==
    anim.pc # "idle" =>
        /\ Len(calls) >= 1
        /\ calls[1].op = "reset"
        /\ Len(calls) = 1 + 2 * anim.frame
                          + (CASE last.status = "AttributeError" -> 2
                               [] last.status = "ComputeError" -> 1
                               [] OTHER -> 0)
        /\ last.status = "ComputeError" =>
              /\ calls[Len(calls)].op = "compute"
              /\ IsQuotient(calls[Len(calls)].time, anim.frame, anim.frame_rate)
        /\ \A k \in 0..((Len(calls) - 3) \div 2) :
            /\ calls[2 * k + 2].op = "compute"
            /\ IsQuotient(calls[2 * k + 2].time, k, anim.frame_rate)
            /\ calls[2 * k + 3].op = "render"

\* C8 witness: render_animation has returned after three frames.
C8_Witness ==
    /\ anim.pc = "done"
    /\ Len(calls) = 7
    /\ calls[6].time = <<1, 1>>

\* C9: render_animation returns duration * frame_rate images, and one more
\* if inclusive, which it is unless told otherwise; the image at index i is
\* the one returned by the render that followed compute(i / frame_rate), and
\* no image is returned twice.
C9_OneImagePerFrame ==
    anim.pc = "done" =>
        /\ Len(returned) = anim.duration * anim.frame_rate
                           + (IF anim.given = "False" THEN 0 ELSE 1)
        /\ \A i \in 1..Len(returned) :
            /\ calls[2 * i + 1].op = "render"
            /\ returned[i].id = calls[2 * i + 1].image
            /\ returned[i].id # 0
            /\ IsQuotient(calls[2 * i].time, i - 1, anim.frame_rate)
        /\ \A i, j \in 1..Len(returned) : i < j => returned[i].id < returned[j].id

\* C9 witness: render_animation, inclusive by default, has returned the three
\* images of a scene of duration 1 at frame rate 2.
C9_Witness ==
    /\ anim.pc = "done"
    /\ anim.given = "default"
    /\ anim.duration = 1
    /\ anim.frame_rate = 2
    /\ Len(returned) = 3

\* -------------------------------------------------------------------- C10

\* C10: for a frame rate above 0, calc_frame_count is duration * frame_rate,
\* plus 1 if inclusive; the generator of iter_frame_time yields (0, 0 /
\* frame_rate), (1, 1 / frame_rate), ... in this order, never raises, and
\* has yielded exactly that many pairs when it ends; a new generator has
\* yielded nothing and starts at frame 0.
C10_FrameCountAndFrames ==
    /\ gen.counted.frames = gen.counted.duration * gen.counted.frame_rate
                            + (IF gen.counted.inclusive THEN 1 ELSE 0)
    /\ gen.frame_rate > 0 =>
        /\ gen.state # "raised"
        /\ \A i \in 1..Len(gen.yielded) :
            /\ gen.yielded[i][1] = i - 1
            /\ IsQuotient(gen.yielded[i][2], i - 1, gen.frame_rate)
        /\ Len(gen.yielded) <= gen.duration * gen.frame_rate
                               + (IF gen.inclusive THEN 1 ELSE 0)
        /\ gen.state = "done" =>
              Len(gen.yielded) = gen.duration * gen.frame_rate
                                 + (IF gen.inclusive THEN 1 ELSE 0)
    /\ last.op = "iter_frame_time" => (gen.frame = 0 /\ gen.yielded = <<>>)

\* C10 witness: the generator for duration 1, frame rate 2, inclusive, has
\* ended after (0, 0), (1, 1/2), (2, 1), and calc_frame_count has returned 3.
C10_Witness ==
    /\ gen.state = "done"
    /\ gen.yielded = <<<<0, <<0, 1>>>>, <<1, <<1, 2>>>>, <<2, <<1, 1>>>>>>
    /\ gen.counted.frames = 3

\* -------------------------------------------------------------- C11 .. C12

\* The last step called Renderer.render: the driver's compute had returned.
RendererCalled ==
    /\ calls # <<>>
    /\ calls[Len(calls)].op = "render"
    /\ last.op \in {"render", "frame", "render_animation"}

\* C11: Renderer.render on a root that is no Scene raises at its first
\* statement: the Renderer has made no image, no draw call was issued, the
\* translation stack is as __init__ left it, and no image is returned.
C11_NonSceneRootRejected ==
    (RendererCalled /\ ~issubclass(cls[Rendered], "Scene")) =>
        /\ last.status = "AssertionError"
        /\ renderer._image = NoImage
        /\ renderer.allocated = 0
        /\ renderer.draws = <<>>
        /\ renderer._translations = <<Zero>>
        /\ returned = <<>>

\* C11 witness: render was called on a Group that holds a Rectangle.
C11_Witness ==
    /\ RendererCalled
    /\ last.op = "render"
    /\ cls[last.self] = "Group"
    /\ last.status = "AssertionError"
    /\ \E e \in Elems : _parent[e] = last.self /\ cls[e] = "Rectangle"

\* The classes Renderer has a _render_<class> method for.
Handled == {"Scene", "Group", "Rectangle", "Circle", "Ellipse", "Line", "Text"}

\* An element and everything below it.
Subtree(e) == {e} \cup Descendants(e)

\* The siblings that follow u in its parent's children list.
LaterSiblings(u) ==
    IF _parent[u] = None THEN {}
    ELSE LET list == _children[_parent[u]]
         IN  {list[j] : j \in {j \in 1..Len(list) :
                                  \E i \in 1..(j - 1) : list[i] = u}}

\* The elements the draw calls of the last render were issued for.
Drawn == {renderer.draws[i].element : i \in 1..Len(renderer.draws)}

\* C12: when Renderer.render is called on a Scene whose tree holds an element
\* of a class without a handler, the call raises AttributeError and no image
\* is returned; nothing below such an element is drawn, and neither are the
\* siblings that follow it, nor anything below them.
C12_UnhandledElementRaises ==
    (RendererCalled /\ issubclass(cls[Rendered], "Scene")) =>
        \A u \in Subtree(Rendered) :
            cls[u] \notin Handled =>
                /\ last.status = "AttributeError"
                /\ returned = <<>>
                /\ u \notin Drawn
                /\ Drawn \cap Descendants(u) = {}
                /\ \A s \in LaterSiblings(u) : Drawn \cap Subtree(s) = {}

\* C12 witness: a render of a Scene raised at its first child, an element
\* without a handler, whose later sibling is a Rectangle; nothing was drawn.
C12_Witness ==
    /\ last.op = "render"
    /\ last.status = "AttributeError"
    /\ renderer.draws = <<>>
    /\ \E u \in Elems :
        /\ cls[u] = "Element"
        /\ _parent[u] = last.self
        /\ \E s \in LaterSiblings(u) : cls[s] = "Rectangle"

\* -------------------------------------------------------------------- C13

\* The step is a has, get or set call with a name that no property of the
\* element is registered under.
AbsentNameCall ==
    /\ last'.op \in {"has", "get", "set"}
    /\ last'.name \notin DOMAIN _properties[last'.self]

\* C13 as stated: has, get and set with a name that is not defined each
\* raise, and leave the property map as it was.
C13_AbsentNameFails ==
    [][AbsentNameCall =>
        (/\ last'.status # "ok"
         /\ _properties' = _properties)]_vars

\* C13 as the code has it: get and set with a name that is not defined
\* raise (KeyError, AssertionError); has does not raise but returns False;
\* all three leave the property map as it was.
C13_AbsentNameGetSetFail ==
    [][AbsentNameCall =>
        (/\ _properties' = _properties
         /\ IF last'.op = "has"
            THEN last'.status = "ok" /\ last'.ret = "False"
            ELSE last'.status \in {"KeyError", "AssertionError"})]_vars

\* C13 witness: has was asked for a name that is not defined, on an element
\* that has another property, and returned False.
C13_Witness ==
    /\ last.op = "has"
    /\ last.status = "ok"
    /\ last.ret = "False"
    /\ last.name \notin DOMAIN _properties[last.self]
    /\ DOMAIN _properties[last.self] # {}

\* -------------------------------------------------------------------- C14

\* The allowed types a define call asks for: the ones handed in, or, when
\* none are, the class of the boxed value and no other.
AskedTypes(value, types) ==
    IF types.form = "none" THEN {Coerce(value).cls} ELSE types.of

\* C14: a define raises if the name is already defined on the element, or
\* if the boxed value is an instance of none of the allowed types asked for.
\* A define that raises leaves every property of the element as it was and
\* registers none.  Put the other way round for the define that returns:
\* the name was not defined, and whatever types were handed in, the boxed
\* value is an instance of one of them, and the property is registered with
\* that value and those types, the others staying as they were.
C14_DefineFailsUnchanged ==
    [][last'.op = "define" =>
        IF last'.status # "ok"
        THEN /\ last'.status = "AssertionError"
             /\ _properties' = _properties
        ELSE /\ last'.name \notin DOMAIN _properties[last'.self]
             /\ DOMAIN _properties'[last'.self]
                    = DOMAIN _properties[last'.self] \cup {last'.name}
             /\ \A other \in DOMAIN _properties[last'.self] :
                    _properties'[last'.self][other] = _properties[last'.self][other]
             /\ \A types \in TypesArgs, relative \in RelativeArgs :
                    Define(last'.self, last'.name, last'.value, types, relative) =>
                        /\ Allowed(Coerce(last'.value), AskedTypes(last'.value, types))
                        /\ _properties'[last'.self][last'.name].value = Coerce(last'.value)
                        /\ _properties'[last'.self][last'.name].types
                                = AskedTypes(last'.value, types)
    ]_vars

\* C14 witness: a define of a name that is already defined has failed, and
\* the property still holds a value of another class than the one handed in.
C14_Witness ==
    /\ last.op = "define"
    /\ last.status = "AssertionError"
    /\ last.name \in DOMAIN _properties[last.self]
    /\ isinstance(Coerce(last.value), "Type")
    /\ _properties[last.self][last.name].value.cls # Coerce(last.value).cls

\* -------------------------------------------------------------- C15 .. C16

\* The shape classes, and the draw call the handler of each one makes.
DrawCallOf ==
    [Rectangle |-> "draw_rect", Circle |-> "draw_circle", Ellipse |-> "draw_ellipse",
     Line |-> "draw_line", Text |-> "draw_text"]

Shapes == DOMAIN DrawCallOf

\* The draw calls of the last render that were issued for element e.
DrawsFor(e) == {i \in 1..Len(renderer.draws) : renderer.draws[i].element = e}

\* A Renderer.render call has just returned an image: render, or a frame of
\* render_animation.
ImageReturned ==
    /\ RendererCalled
    /\ last.op \in {"render", "frame"}
    /\ last.status = "ok"

\* The image that call returned.
ImageOf == IF last.op = "render" THEN returned[1] ELSE anim.frames[Len(anim.frames)]

\* C15: a render that returns has issued one draw call, of its class's
\* kind, for each shape in the tree of the scene, and no other draw call:
\* none for a Scene or a Group, none for an element outside the tree.  For a
\* Scene without children there is no draw call at all, and the image
\* returned is the one Image.new made from that scene in this call.
C15_OneDrawPerShape ==
    ImageReturned =>
        /\ \A e \in Elems :
                IF e \in Subtree(Rendered) /\ cls[e] \in Shapes
                THEN /\ Cardinality(DrawsFor(e)) = 1
                     /\ \A i \in DrawsFor(e) : renderer.draws[i].call = DrawCallOf[cls[e]]
                ELSE DrawsFor(e) = {}
        /\ \A i \in 1..Len(renderer.draws) : renderer.draws[i].element \in Elems
        /\ _children[Rendered] = <<>> =>
                /\ renderer.draws = <<>>
                /\ ImageOf = [id |-> renderer.allocated, scene |-> Rendered]
                /\ ImageOf = renderer._image

\* C15 witness: a render has returned for a Scene that holds a Group that
\* holds a Line, with the one draw_line call.
C15_Witness ==
    /\ ImageReturned
    /\ last.op = "render"
    /\ Len(renderer.draws) = 1
    /\ renderer.draws[1].call = "draw_line"
    /\ cls[_parent[renderer.draws[1].element]] = "Group"
    /\ _parent[_parent[renderer.draws[1].element]] = last.self

C17_SetChangesValueOnly ==
    [][(last'.op \in {"set", "property.set"} /\ last'.status = "ok") =>
        LET self == last'.self
            name == last'.name
        IN  /\ name \in DOMAIN _properties[self]
            /\ DOMAIN _properties'[self] = DOMAIN _properties[self]
            /\ _properties'[self][name].value = Given(last')
            /\ _properties'[self][name].name = _properties[self][name].name
            /\ _properties'[self][name].types = _properties[self][name].types
            /\ _properties'[self][name].relative = _properties[self][name].relative
            /\ \A other \in DOMAIN _properties[self] \ {name} :
                    _properties'[self][other] = _properties[self][other]
            /\ \A e \in Elems \ {self} : _properties'[e] = _properties[e]
            /\ _children' = _children
            /\ _parent' = _parent
    ]_vars

\* C17 witness: a set has returned on a property that allows Number and
\* String and is relative to another property; it now holds a String, and
\* the other property holds a Point.
C17_Witness ==
    /\ last.op = "set"
    /\ last.status = "ok"
    /\ _properties[last.self][last.name].types = {"Number", "String"}
    /\ _properties[last.self][last.name].value = Coerce(last.value)
    /\ _properties[last.self][last.name].value.cls = "String"
    /\ _properties[last.self][last.name].relative \in DOMAIN _properties[last.self]
    /\ \E other \in DOMAIN _properties[last.self] \ {last.name} :
            _properties[last.self][other].value.cls = "Point"

\* -------------------------------------------------------------------- C18

\* The i-th call of the driver failed: a render that returned no image, or
\* a compute that no render followed.
FrameFailed(i) ==
    \/ calls[i].op = "render" /\ calls[i].image = 0
    \/ /\ calls[i].op = "compute"
       /\ i = Len(calls) \/ calls[i + 1].op # "render"

\* C18: in render_animation a compute or render that fails is the last call
\* the function makes: no compute and no render comes after it, the
\* function is left with the exception, and it returns nothing, whatever
\* frames it had rendered.  The same holds when the frame's time cannot be
\* computed.
C18_FailureEndsAnimation ==
    anim.pc # "idle" =>
        /\ \A i \in 1..Len(calls) :
                FrameFailed(i) =>
                    /\ i = Len(calls)
                    /\ anim.pc = "raised"
                    /\ last.op = "render_animation"
                    /\ last.status \in {"ComputeError", "AttributeError"}
        /\ anim.pc = "raised" =>
                /\ returned = <<>>
                /\ last.status \notin {"ok", "running"}
                /\ Len(calls) <= 1 + 2 * (anim.frame + 1)

\* C18 witness: compute raised for the third frame of an animation, after
\* two frames were rendered; nothing is returned.
C18_Witness ==
    /\ anim.pc = "raised"
    /\ last.status = "ComputeError"
    /\ Len(anim.frames) = 2
    /\ Len(calls) = 6
    /\ FrameFailed(6)
    /\ returned = <<>>

\* -------------------------------------------------------------------- C19

\* The places of p's children list that hold c.
PlacesIn(c, p) == {i \in 1..Len(_children[p]) : _children[p][i] = c}

\* C19: an element's parent is p exactly if p's children list holds it; a
\* list holds an element at most once; so an element is in the list of its
\* parent, once, and in no other list, and an element without a parent is
\* in no list.
C19_ParentAndChildrenAgree ==
    \A c \in Elems :
        /\ \A p \in Elems :
            /\ _parent[c] = p <=> PlacesIn(c, p) # {}
            /\ Cardinality(PlacesIn(c, p)) <= 1
        /\ _parent[c] = None => \A p \in Elems : PlacesIn(c, p) = {}
        /\ _parent[c] \in Elems \cup {None}

\* C19 witness: an add of an element that already has a parent has failed;
\* that parent, not the receiver of the failed add, holds it and one other
\* child.
C19_Witness ==
    /\ last.op = "add"
    /\ last.status = "AssertionError"
    /\ last.element \in Elems
    /\ _parent[last.element] \in Elems \ {last.self}
    /\ Len(_children[_parent[last.element]]) = 2
    /\ PlacesIn(last.element, last.self) = {}

====
